---- MODULE Spec2Model ----
(***************************************************************************)
(* Model of the ATel report importer: the parser (parser.py: parse_report, *)
(* extract_dates, parse_dates, extract_known_aliases, extract_keywords)    *)
(* and the importer (importer.py: download_report, parse_report,           *)
(* extract_keywords).  Texts are sequences of one-character strings, so    *)
(* that lower-casing, padding and the boundary classes of the regular      *)
(* expressions are computed character by character as the code does.       *)
(***************************************************************************)
EXTENDS Integers, Sequences, FiniteSets, TLC

(***************************************************************************)
(* Bounds of the model.                                                    *)
(***************************************************************************)
\* number of fragments concatenated into an input text of extract_keywords
\* and of extract_known_aliases
MaxFrags == 2
\* number of fragments concatenated into an input text of extract_dates
MaxDateFrags == 3
\* number of raw date strings in an input list of parse_dates
MaxRawDates == 3
\* number of paragraphs of a document
MaxParagraphs == 2
\* number of anchors in the telegram container of a document
MaxLinks == 2
\* number of entries of the alias table
MaxAliases == 2
\* number of calls of parse_report on one document
MaxCalls == 2
\* number of calls of download_report
MaxDownloads == 2
\* the report numbers download_report is called with
MaxAtelNum == 2
\* number of concurrent callers of import_report
MaxImporters == 3

(***************************************************************************)
(* Characters and strings.                                                 *)
(***************************************************************************)
\* the character class [a-z]
LowerLetters ==
    {"a","b","c","d","e","f","g","h","i","j","k","l","m",
     "n","o","p","q","r","s","t","u","v","w","x","y","z"}

\* the character class \d
Digits == {"0","1","2","3","4","5","6","7","8","9"}

\* the character class \s, and the characters str.strip() removes
Whitespace == {" ", "\n", "\t"}

\* str.lower() on one character
ToLower ==
    [A |-> "a", B |-> "b", C |-> "c", D |-> "d", E |-> "e", F |-> "f",
     G |-> "g", H |-> "h", I |-> "i", J |-> "j", K |-> "k", L |-> "l",
     M |-> "m", N |-> "n", O |-> "o", P |-> "p", Q |-> "q", R |-> "r",
     S |-> "s", T |-> "t", U |-> "u", V |-> "v", W |-> "w", X |-> "x",
     Y |-> "y", Z |-> "z"]

LowerChar(c) == IF c \in DOMAIN ToLower THEN ToLower[c] ELSE c

\* str.lower()
Lower(s) == [i \in 1..Len(s) |-> LowerChar(s[i])]

\* f' {s} ': the text padded with one blank on each side
Pad(s) == <<" ">> \o s \o <<" ">>

\* the concatenation of a sequence of strings
RECURSIVE Concat(_)
Concat(ss) == IF ss = <<>> THEN <<>> ELSE Head(ss) \o Concat(Tail(ss))

\* the list as it is, duplicates kept
DictFromKeys_KeepAll(xs) == xs

\* list(dict.fromkeys(xs)): duplicates removed, first occurrences kept in order
RECURSIVE DictFromKeys(_)
DictFromKeys(xs) ==
    IF xs = <<>> THEN <<>>
    ELSE LET init == DictFromKeys(SubSeq(xs, 1, Len(xs) - 1))
             last == xs[Len(xs)]
         IN  IF \E i \in 1..Len(init) : init[i] = last THEN init
             ELSE Append(init, last)

\* the elements of a list
Range(xs) == {xs[i] : i \in 1..Len(xs)}

\* a list holds no value twice
NoDuplicates(xs) == \A i, j \in 1..Len(xs) : xs[i] = xs[j] => i = j

\* re.search(f'{cls}{lit}{cls}', s) is not None, for a literal lit bounded on
\* each side by one character outside the set letters
SearchBounded(letters, lit, s) ==
    \E p \in 1..(Len(s) - Len(lit) - 1) :
        /\ s[p] \notin letters
        /\ SubSeq(s, p + 1, p + Len(lit)) = lit
        /\ s[p + Len(lit) + 1] \notin letters

(***************************************************************************)
(* The keyword vocabulary.                                                 *)
(***************************************************************************)
KEYWORD_REGEXES == <<
    <<"r","a","d","i","o">>,
    <<"m","i","l","l","i","m","e","t","e","r">>,
    <<"s","u","b","-","m","i","l","l","i","m","e","t","e","r">>,
    <<"f","a","r","-","i","n","f","r","a","-","r","e","d">>,
    <<"i","n","f","r","a","-","r","e","d">>,
    <<"o","p","t","i","c","a","l">>,
    <<"u","l","t","r","a","-","v","i","o","l","e","t">>,
    <<"x","-","r","a","y">>,
    <<"g","a","m","m","a"," ","r","a","y">>,
    <<">"," ","g","e","v">>,
    <<"t","e","v">>,
    <<"v","h","e">>,
    <<"u","h","e">>,
    <<"n","e","u","t","r","i","n","o","s">>,
    <<"a"," ","c","o","m","m","e","n","t">>,
    <<"a","g","n">>,
    <<"a","s","t","e","r","o","i","d","(","b","i","n","a","r","y",")">>,
    <<"a","s","t","e","r","o","i","d">>,
    <<"b","i","n","a","r","y">>,
    <<"b","l","a","c","k"," ","h","o","l","e">>,
    <<"b","l","a","z","a","r">>,
    <<"c","a","t","a","c","l","y","s","m","i","c"," ","v","a","r","i","a","b","l","e">>,
    <<"c","o","m","e","t">>,
    <<"c","o","s","m","i","c"," ","r","a","y","s">>,
    <<"d","i","r","e","c","t"," ","c","o","l","l","a","p","s","e"," ","e","v","e","n","t">>,
    <<"e","x","o","p","l","a","n","e","t">>,
    <<"f","a","s","t"," ","r","a","d","i","o"," ","b","u","r","s","t">>,
    <<"g","a","m","m","a","-","r","a","y"," ","b","u","r","s","t">>,
    <<"g","l","o","b","u","l","a","r"," ","c","l","u","s","t","e","r">>,
    <<"g","r","a","v","i","t","a","t","i","o","n","a","l"," ","l","e","n","s","i","n","g">>,
    <<"g","r","a","v","i","t","a","t","i","o","n","a","l"," ","w","a","v","e","s">>,
    <<"m","a","g","n","e","t","a","r">>,
    <<"m","e","t","e","o","r">>,
    <<"m","i","c","r","o","l","e","n","s","i","n","g"," ","e","v","e","n","t">>,
    <<"n","e","a","r","-","e","a","r","t","h"," ","o","b","j","e","c","t">>,
    <<"n","e","u","t","r","o","n"," ","s","t","a","r">>,
    <<"n","o","v","a">>,
    <<"p","l","a","n","e","t","(","m","i","n","o","r",")">>,
    <<"p","l","a","n","e","t">>,
    <<"p","o","t","e","n","t","i","a","l","l","y"," ","h","a","z","a","r","d","o","u","s"," ","a","s","t","e","r","o","i","d">>,
    <<"p","r","e","-","m","a","i","n","-","s","e","q","u","e","n","c","e"," ","s","t","a","r">>,
    <<"p","u","l","s","a","r">>,
    <<"q","u","a","s","a","r">>,
    <<"r","e","q","u","e","s","t"," ","f","o","r"," ","o","b","s","e","r","v","a","t","i","o","n","s">>,
    <<"s","o","f","t"," ","g","a","m","m","a","-","r","a","y"," ","r","e","p","e","a","t","e","r">>,
    <<"s","o","l","a","r"," ","s","y","s","t","e","m"," ","o","b","j","e","c","t">>,
    <<"s","t","a","r">>,
    <<"s","u","p","e","r","n","o","v","a"," ","r","e","m","n","a","n","t">>,
    <<"s","u","p","e","r","n","o","v","a","e">>,
    <<"t","h","e"," ","s","u","n">>,
    <<"t","i","d","a","l"," ","d","i","s","r","u","p","t","i","o","n"," ","e","v","e","n","t">>,
    <<"t","r","a","n","s","i","e","n","t">>,
    <<"v","a","r","i","a","b","l","e","s">>,
    <<"y","o","u","n","g"," ","s","t","e","l","l","a","r"," ","o","b","j","e","c","t">> >>

\* model.constants.FIXED_KEYWORDS: the canonical labels, in definition order;
\* label i is the text pattern i of KEYWORD_REGEXES stands for
FIXED_KEYWORDS == KEYWORD_REGEXES

\* model.constants.FIXED_KEYWORDS_REGEX: the patterns importer.py joins into
\* one alternation
FIXED_KEYWORDS_REGEX == KEYWORD_REGEXES

(***************************************************************************)
(* parser.extract_keywords                                                 *)
(***************************************************************************)
\* the text searched without lower-casing it
KeywordHaystack_NoLower(text) == Pad(text)

\* the text the patterns are searched in: f' {text.lower()} '
KeywordHaystack(text) == Pad(Lower(text))

\* keyword_regex.search(...) is not None for the i-th pattern:
\* f'[^a-z]{keyword}[^a-z]'
KeywordFound(i, text) ==
    SearchBounded(LowerLetters, KEYWORD_REGEXES[i], KeywordHaystack(text))

\* the loop over KEYWORD_REGEXES with its counter i: FIXED_KEYWORDS[i] is
\* appended when pattern i is found
RECURSIVE KeywordLoop(_, _)
KeywordLoop(i, text) ==
    IF i > Len(KEYWORD_REGEXES) THEN <<>>
    ELSE (IF KeywordFound(i, text) THEN <<FIXED_KEYWORDS[i]>> ELSE <<>>)
         \o KeywordLoop(i + 1, text)

\* the labels in the order in which their patterns are first found in the
\* text
RECURSIVE KeywordsInTextOrder(_, _)
KeywordsInTextOrder(text, pos) ==
    IF pos > Len(text) + 2 THEN <<>>
    ELSE LET here == {i \in 1..Len(KEYWORD_REGEXES) :
                        /\ KeywordFound(i, text)
                        /\ pos + Len(KEYWORD_REGEXES[i]) + 1 <= Len(text) + 2
                        /\ SubSeq(KeywordHaystack(text), pos + 1,
                                  pos + Len(KEYWORD_REGEXES[i])) = KEYWORD_REGEXES[i]}
         IN  (IF here = {} THEN <<>>
              ELSE <<FIXED_KEYWORDS[CHOOSE i \in here : \A m \in here : i <= m]>>)
             \o KeywordsInTextOrder(text, pos + 1)

extract_keywords_TextOrder(text) == DictFromKeys(KeywordsInTextOrder(text, 1))

extract_keywords(text) == KeywordLoop(1, text)

(***************************************************************************)
(* importer.extract_keywords                                               *)
(***************************************************************************)
\* the loop regex = f'{regex}{keyword}|': the alternatives of the combined
\* pattern, the text after the last '|' being an empty alternative
JoinedAlternatives == Append(FIXED_KEYWORDS_REGEX, <<>>)

\* regex.rstrip(regex[-1]): the trailing '|' characters are removed, and with
\* them the empty alternatives at the end
RECURSIVE RStripBar(_)
RStripBar(alts) ==
    IF alts # <<>> /\ alts[Len(alts)] = <<>>
    THEN RStripBar(SubSeq(alts, 1, Len(alts) - 1))
    ELSE alts

\* the joined pattern with its trailing '|' left in place
CombinedRegex_NotStripped == JoinedAlternatives

CombinedRegex == RStripBar(JoinedAlternatives)

\* the alternative at position pos of s matches
AltMatchesAt(alt, s, pos) ==
    /\ pos + Len(alt) - 1 <= Len(s)
    /\ SubSeq(s, pos, pos + Len(alt) - 1) = alt

\* the index of the first alternative that matches at pos, 0 when none does
FirstAlt(alts, s, pos) ==
    IF \E k \in 1..Len(alts) : AltMatchesAt(alts[k], s, pos)
    THEN CHOOSE k \in 1..Len(alts) :
            /\ AltMatchesAt(alts[k], s, pos)
            /\ \A j \in 1..(k - 1) : ~AltMatchesAt(alts[j], s, pos)
    ELSE 0

\* keywords_regex.findall(s): the non-overlapping matches, scanning from the
\* left; an empty match moves the scan one character on
RECURSIVE FindAllFrom(_, _, _)
FindAllFrom(alts, s, pos) ==
    IF pos > Len(s) + 1 THEN <<>>
    ELSE LET k == FirstAlt(alts, s, pos)
         IN  IF k = 0 THEN FindAllFrom(alts, s, pos + 1)
             ELSE <<alts[k]>> \o
                  FindAllFrom(alts, s,
                              IF alts[k] = <<>> THEN pos + 1
                              ELSE pos + Len(alts[k]))

ImporterFindAll(body_text) == FindAllFrom(CombinedRegex, Lower(body_text), 1)

importer_extract_keywords(body_text) == DictFromKeys(ImporterFindAll(body_text))
(***************************************************************************)
(* Regular expressions of the kind DATE_REGEXES uses: literals, character  *)
(* classes, sequences, alternations and optional groups, matched the way   *)
(* the backtracking matcher of re does: alternatives left to right, an     *)
(* optional group first with and then without its content.                 *)
(***************************************************************************)
Lit(str) == [t |-> "lit", s |-> str]
Cls(set) == [t |-> "cls", set |-> set, neg |-> FALSE]
NotCls(set) == [t |-> "cls", set |-> set, neg |-> TRUE]
Cat(items) == [t |-> "seq", items |-> items]
Or(items) == [t |-> "alt", items |-> items]
Opt(r) == [t |-> "opt", r |-> r]

RECURSIVE Ends(_, _, _), EndsSeq(_, _, _), EndsAlt(_, _, _), EndsFrom(_, _, _),
          EndsPlus(_, _, _)

\* the positions after the matches of r that start at position i of s, in
\* the order in which the matcher tries them
Ends(r, s, i) ==
    CASE r.t = "lit" ->
            IF /\ i + Len(r.s) - 1 <= Len(s)
               /\ SubSeq(s, i, i + Len(r.s) - 1) = r.s
            THEN <<i + Len(r.s)>> ELSE <<>>
      [] r.t = "cls" ->
            IF i <= Len(s) /\ ((s[i] \in r.set) # r.neg)
            THEN <<i + 1>> ELSE <<>>
      [] r.t = "seq" -> EndsSeq(r.items, s, <<i>>)
      [] r.t = "alt" -> EndsAlt(r.items, s, i)
      [] r.t = "opt" -> Ends(r.r, s, i) \o <<i>>
      [] r.t = "plus" -> EndsPlus(r, s, Ends(r.r, s, i))

\* the matches of r from each of the start positions, in order
EndsFrom(r, s, starts) ==
    IF starts = <<>> THEN <<>>
    ELSE Ends(r, s, Head(starts)) \o EndsFrom(r, s, Tail(starts))

EndsSeq(items, s, starts) ==
    IF items = <<>> \/ starts = <<>> THEN starts
    ELSE EndsSeq(Tail(items), s, EndsFrom(Head(items), s, starts))

EndsAlt(items, s, i) ==
    IF items = <<>> THEN <<>>
    ELSE Ends(Head(items), s, i) \o EndsAlt(Tail(items), s, i)

\* one or more repetitions, as many as possible first: after each first
\* repetition come the longer matches, then the match that stops there
EndsPlus(r, s, firsts) ==
    IF firsts = <<>> THEN <<>>
    ELSE Ends(r, s, Head(firsts)) \o <<Head(firsts)>>
         \o EndsPlus(r, s, Tail(firsts))

\* the position after the match of r at position i of s, 0 when there is none
MatchEnd(r, s, i) ==
    LET e == Ends(r, s, i) IN IF e = <<>> THEN 0 ELSE Head(e)

\* pattern.findall(s) for a pattern that matches no empty string: the
\* matches from left to right, each scan resuming after the previous match
RECURSIVE FindAllRegex(_, _, _)
FindAllRegex(r, s, pos) ==
    IF pos > Len(s) THEN <<>>
    ELSE LET e == MatchEnd(r, s, pos)
         IN  IF e = 0 THEN FindAllRegex(r, s, pos + 1)
             ELSE <<SubSeq(s, pos, e - 1)>> \o FindAllRegex(r, s, e)

\* pattern.search(s).group(): the leftmost match, <<>> when there is none
RECURSIVE SearchRegex(_, _, _)
SearchRegex(r, s, pos) ==
    IF pos > Len(s) THEN <<>>
    ELSE LET e == MatchEnd(r, s, pos)
         IN  IF e = 0 THEN SearchRegex(r, s, pos + 1)
             ELSE SubSeq(s, pos, e - 1)

(***************************************************************************)
(* DATE_REGEXES                                                            *)
(***************************************************************************)
Digit == Cls(Digits)

\* (?:[0-3]\d|[1-9])
DayPattern ==
    Or(<<Cat(<<Cls({"0","1","2","3"}), Digit>>),
          Cls(Digits \ {"0"})>>)

\* (?:[0-1]\d|[1-9])
MonthNumberPattern ==
    Or(<<Cat(<<Cls({"0","1"}), Digit>>), Cls(Digits \ {"0"})>>)

\* [1-2]\d\d\d
Year4Pattern == Cat(<<Cls({"1","2"}), Digit, Digit, Digit>>)

\* (?:[1-2]\d\d\d|\d\d)
YearPattern == Or(<<Year4Pattern, Cat(<<Digit, Digit>>)>>)

\* (?:january|february|...|december)
MonthNamePattern ==
    Or(<<Lit(<<"j","a","n","u","a","r","y">>),
          Lit(<<"f","e","b","r","u","a","r","y">>),
          Lit(<<"m","a","r","c","h">>),
          Lit(<<"a","p","r","i","l">>),
          Lit(<<"m","a","y">>),
          Lit(<<"j","u","n","e">>),
          Lit(<<"j","u","l","y">>),
          Lit(<<"a","u","g","u","s","t">>),
          Lit(<<"s","e","p","t","e","m","b","e","r">>),
          Lit(<<"o","c","t","o","b","e","r">>),
          Lit(<<"n","o","v","e","m","b","e","r">>),
          Lit(<<"d","e","c","e","m","b","e","r">>)>>)

\* (?:jan|feb|...|dec)
MonthAbbrPattern ==
    Or(<<Lit(<<"j","a","n">>), Lit(<<"f","e","b">>), Lit(<<"m","a","r">>),
          Lit(<<"a","p","r">>), Lit(<<"m","a","y">>), Lit(<<"j","u","n">>),
          Lit(<<"j","u","l">>), Lit(<<"a","u","g">>), Lit(<<"s","e","p">>),
          Lit(<<"o","c","t">>), Lit(<<"n","o","v">>), Lit(<<"d","e","c">>)>>)

Ch(c) == Lit(<<c>>)
Space == Cls(Whitespace)

\* (?:;?\s(?:[0-2]\d|[1-9]):[0-5]\d(?::[0-5]\d)?)?
TimePattern ==
    Opt(Cat(<<Opt(Ch(";")), Space,
              Or(<<Cat(<<Cls({"0","1","2"}), Digit>>), Cls(Digits \ {"0"})>>),
              Ch(":"), Cls({"0","1","2","3","4","5"}), Digit,
              Opt(Cat(<<Ch(":"), Cls({"0","1","2","3","4","5"}), Digit>>))>>))

DATE_REGEXES ==
    << \* dd mmmm yyyy
       Cat(<<DayPattern, Space, MonthNamePattern, Space, Year4Pattern, TimePattern>>),
       \* dd mmm yyyy
       Cat(<<DayPattern, Space, MonthAbbrPattern, Space, Year4Pattern, TimePattern>>),
       \* mmmm dd, yyyy
       Cat(<<MonthNamePattern, Space, DayPattern, Ch(","), Space, Year4Pattern, TimePattern>>),
       \* dd-mmm-yy and dd-mmm-yyyy
       Cat(<<DayPattern, Ch("-"), MonthAbbrPattern, Ch("-"), YearPattern, TimePattern>>),
       \* dd-mm-yy and dd-mm-yyyy
       Cat(<<DayPattern, Ch("-"), MonthNumberPattern, Ch("-"), YearPattern, TimePattern>>),
       \* dd/mm/yy and dd/mm/yyyy
       Cat(<<DayPattern, Ch("/"), MonthNumberPattern, Ch("/"), YearPattern, TimePattern>>),
       \* mm/dd/yy and mm/dd/yyyy
       Cat(<<MonthNumberPattern, Ch("/"), DayPattern, Ch("/"), YearPattern, TimePattern>>),
       \* yy/mm/dd and yyyy/mm/dd
       Cat(<<YearPattern, Ch("/"), MonthNumberPattern, Ch("/"), DayPattern, TimePattern>>),
       \* dd.mm.yyyy
       Cat(<<DayPattern, Ch("."), MonthNumberPattern, Ch("."), Year4Pattern, TimePattern>>),
       \* yyyy-mm-dd
       Cat(<<Year4Pattern, Ch("-"), MonthNumberPattern, Ch("-"), DayPattern, TimePattern>>) >>

(***************************************************************************)
(* parser.extract_dates                                                    *)
(***************************************************************************)
\* the date regex with no boundary character on either side
BoundedDateRegex_NoBoundary(regex) == regex

\* re.compile(f'[^\d]{regex}[^\d]')
BoundedDateRegex(regex) == Cat(<<NotCls(Digits), regex, NotCls(Digits)>>)

\* dates_found for one regex: findall over f' {text.lower()} '
DatesFound(regex, text) ==
    FindAllRegex(BoundedDateRegex(regex), Pad(Lower(text)), 1)

\* the inner loop: the date is searched again in each match, which drops the
\* two boundary characters
RECURSIVE ExtractedDates(_, _)
ExtractedDates(regex, found) ==
    IF found = <<>> THEN <<>>
    ELSE <<SearchRegex(regex, Head(found), 1)>>
         \o ExtractedDates(regex, Tail(found))

\* the outer loop over DATE_REGEXES
RECURSIVE DateLoop(_, _)
DateLoop(k, text) ==
    IF k > Len(DATE_REGEXES) THEN <<>>
    ELSE ExtractedDates(DATE_REGEXES[k], DatesFound(DATE_REGEXES[k], text))
         \o DateLoop(k + 1, text)

extract_dates(text) == DictFromKeys(DateLoop(1, text))

(***************************************************************************)
(* datetime.strptime, for the directives DATE_FORMATS and the submission   *)
(* date format use.  A format is turned into a pattern directive by        *)
(* directive and matched, ignoring case, from the start of the string; the *)
(* first match the matcher finds must end at the end of the string.        *)
(***************************************************************************)
\* \s+
Spaces == [t |-> "plus", r |-> Space]

NonZeroDigit == Cls(Digits \ {"0"})

\* the month names, longest first as strptime orders them, with their numbers
FullMonths ==
    << <<9, <<"s","e","p","t","e","m","b","e","r">> >>,
       <<2, <<"f","e","b","r","u","a","r","y">> >>,
       <<11, <<"n","o","v","e","m","b","e","r">> >>,
       <<12, <<"d","e","c","e","m","b","e","r">> >>,
       <<1, <<"j","a","n","u","a","r","y">> >>,
       <<10, <<"o","c","t","o","b","e","r">> >>,
       <<8, <<"a","u","g","u","s","t">> >>,
       <<3, <<"m","a","r","c","h">> >>,
       <<4, <<"a","p","r","i","l">> >>,
       <<6, <<"j","u","n","e">> >>,
       <<7, <<"j","u","l","y">> >>,
       <<5, <<"m","a","y">> >> >>

AbbrMonths ==
    << <<1, <<"j","a","n">> >>, <<2, <<"f","e","b">> >>,
       <<3, <<"m","a","r">> >>, <<4, <<"a","p","r">> >>,
       <<5, <<"m","a","y">> >>, <<6, <<"j","u","n">> >>,
       <<7, <<"j","u","l">> >>, <<8, <<"a","u","g">> >>,
       <<9, <<"s","e","p">> >>, <<10, <<"o","c","t">> >>,
       <<11, <<"n","o","v">> >>, <<12, <<"d","e","c">> >> >>

MonthNames(months) == Or([i \in 1..Len(months) |-> Lit(months[i][2])])

\* the pattern strptime matches a directive with
DirectiveRegex(d) ==
    CASE d = "d" -> Or(<<Cat(<<Ch("3"), Cls({"0","1"})>>),
                         Cat(<<Cls({"1","2"}), Digit>>),
                         Cat(<<Ch("0"), NonZeroDigit>>),
                         NonZeroDigit,
                         Cat(<<Ch(" "), NonZeroDigit>>)>>)
      [] d = "m" -> Or(<<Cat(<<Ch("1"), Cls({"0","1","2"})>>),
                         Cat(<<Ch("0"), NonZeroDigit>>),
                         NonZeroDigit>>)
      [] d = "H" -> Or(<<Cat(<<Ch("2"), Cls({"0","1","2","3"})>>),
                         Cat(<<Cls({"0","1"}), Digit>>),
                         Digit>>)
      [] d = "M" -> Or(<<Cat(<<Cls({"0","1","2","3","4","5"}), Digit>>), Digit>>)
      [] d = "S" -> Or(<<Cat(<<Ch("6"), Cls({"0","1"})>>),
                         Cat(<<Cls({"0","1","2","3","4","5"}), Digit>>),
                         Digit>>)
      [] d = "y" -> Cat(<<Digit, Digit>>)
      [] d = "Y" -> Cat(<<Digit, Digit, Digit, Digit>>)
      [] d = "B" -> MonthNames(FullMonths)
      [] d = "b" -> MonthNames(AbbrMonths)

\* int() of a string of digits, blanks around it ignored
DigitValue(c) == CHOOSE n \in 0..9 : <<"0","1","2","3","4","5","6","7","8","9">>[n + 1] = c

RECURSIVE ToInt(_)
ToInt(s) ==
    IF s = <<>> THEN 0
    ELSE IF s[Len(s)] \in Whitespace THEN ToInt(SubSeq(s, 1, Len(s) - 1))
    ELSE IF Head(s) \in Whitespace THEN ToInt(Tail(s))
    ELSE 10 * ToInt(SubSeq(s, 1, Len(s) - 1)) + DigitValue(s[Len(s)])

MonthNumber(months, name) ==
    months[CHOOSE i \in 1..Len(months) : months[i][2] = name][1]

\* the fields of the time a string stands for, before any directive is read
DefaultFields == [Y |-> 1900, m |-> 1, d |-> 1, H |-> 0, M |-> 0, S |-> 0]

\* a two-digit year: 69..99 are 1969..1999, 0..68 are 2000..2068
PivotYear(y) == IF y <= 68 THEN 2000 + y ELSE 1900 + y

\* the fields after directive d has matched the string str
Capture(f, d, str) ==
    CASE d = "d" -> [f EXCEPT !.d = ToInt(str)]
      [] d = "m" -> [f EXCEPT !.m = ToInt(str)]
      [] d = "H" -> [f EXCEPT !.H = ToInt(str)]
      [] d = "M" -> [f EXCEPT !.M = ToInt(str)]
      [] d = "S" -> [f EXCEPT !.S = ToInt(str)]
      [] d = "Y" -> [f EXCEPT !.Y = ToInt(str)]
      [] d = "y" -> [f EXCEPT !.Y = PivotYear(ToInt(str))]
      [] d = "B" -> [f EXCEPT !.m = MonthNumber(FullMonths, str)]
      [] d = "b" -> [f EXCEPT !.m = MonthNumber(AbbrMonths, str)]
      [] OTHER -> f

NoMatch == [ok |-> FALSE, end |-> 0, f |-> DefaultFields]

\* the position after a run of white space in the format
RECURSIVE SkipFormatSpace(_, _)
SkipFormatSpace(fmt, fi) ==
    IF fi <= Len(fmt) /\ fmt[fi] \in Whitespace
    THEN SkipFormatSpace(fmt, fi + 1) ELSE fi

RECURSIVE MatchFormat(_, _, _, _, _), MatchItem(_, _, _, _, _, _, _)

\* the rest of the format, from fi, matched against the string from pos
MatchFormat(fmt, fi, s, pos, f) ==
    IF fi > Len(fmt) THEN [ok |-> TRUE, end |-> pos, f |-> f]
    ELSE IF fmt[fi] = "%"
    THEN MatchItem(fmt, fi + 2, s, pos, f, fmt[fi + 1],
                   Ends(DirectiveRegex(fmt[fi + 1]), s, pos))
    ELSE IF fmt[fi] \in Whitespace
    THEN MatchItem(fmt, SkipFormatSpace(fmt, fi), s, pos, f, " ",
                   Ends(Spaces, s, pos))
    ELSE IF pos <= Len(s) /\ s[pos] = LowerChar(fmt[fi])
    THEN MatchFormat(fmt, fi + 1, s, pos + 1, f)
    ELSE NoMatch

\* one item of the format has the matches ends: the first with which the
\* rest of the format matches is taken
MatchItem(fmt, fi, s, pos, f, d, ends) ==
    IF ends = <<>> THEN NoMatch
    ELSE LET r == MatchFormat(fmt, fi, s, Head(ends),
                              Capture(f, d, SubSeq(s, pos, Head(ends) - 1)))
         IN  IF r.ok THEN r
             ELSE MatchItem(fmt, fi, s, pos, f, d, Tail(ends))

IsLeapYear(y) == y % 4 = 0 /\ (y % 100 # 0 \/ y % 400 = 0)

DaysInMonth(y, m) ==
    IF m = 2 THEN (IF IsLeapYear(y) THEN 29 ELSE 28)
    ELSE IF m \in {4, 6, 9, 11} THEN 30 ELSE 31

\* the datetime constructor accepts the fields
ValidDateTime(f) ==
    /\ f.Y >= 1
    /\ f.d <= DaysInMonth(f.Y, f.m)
    /\ f.S <= 59

\* a datetime value
DateTime(f) == <<f.Y, f.m, f.d, f.H, f.M, f.S>>

\* datetime.strptime(date, fmt): ok is FALSE where ValueError is raised
strptime(date, fmt) ==
    LET r == MatchFormat(fmt, 1, Lower(date), 1, DefaultFields)
    IN  IF r.ok /\ r.end = Len(date) + 1 /\ ValidDateTime(r.f)
        THEN [ok |-> TRUE, value |-> DateTime(r.f)]
        ELSE [ok |-> FALSE, value |-> DateTime(DefaultFields)]

(***************************************************************************)
(* parser.parse_dates                                                      *)
(***************************************************************************)
DATE_FORMATS ==
    <<
    <<"%","d"," ","%","B"," ","%","Y",";"," ","%","H",":","%","M",":","%","S">>,
    <<"%","d"," ","%","b"," ","%","Y",";"," ","%","H",":","%","M",":","%","S">>,
    <<"%","B"," ","%","d",","," ","%","Y",";"," ","%","H",":","%","M",":","%","S">>,
    <<"%","d","-","%","b","-","%","Y",";"," ","%","H",":","%","M",":","%","S">>,
    <<"%","d","-","%","m","-","%","Y",";"," ","%","H",":","%","M",":","%","S">>,
    <<"%","d","/","%","m","/","%","Y",";"," ","%","H",":","%","M",":","%","S">>,
    <<"%","m","/","%","d","/","%","Y",";"," ","%","H",":","%","M",":","%","S">>,
    <<"%","Y","/","%","m","/","%","d",";"," ","%","H",":","%","M",":","%","S">>,
    <<"%","d",".","%","m",".","%","Y",";"," ","%","H",":","%","M",":","%","S">>,
    <<"%","Y","-","%","m","-","%","d",";"," ","%","H",":","%","M",":","%","S">>,
    <<"%","d","-","%","b","-","%","y",";"," ","%","H",":","%","M",":","%","S">>,
    <<"%","d","-","%","m","-","%","y",";"," ","%","H",":","%","M",":","%","S">>,
    <<"%","d","/","%","m","/","%","y",";"," ","%","H",":","%","M",":","%","S">>,
    <<"%","m","/","%","d","/","%","y",";"," ","%","H",":","%","M",":","%","S">>,
    <<"%","y","/","%","m","/","%","d",";"," ","%","H",":","%","M",":","%","S">>,
    <<"%","d"," ","%","B"," ","%","Y"," ","%","H",":","%","M",":","%","S">>,
    <<"%","d"," ","%","b"," ","%","Y"," ","%","H",":","%","M",":","%","S">>,
    <<"%","B"," ","%","d",","," ","%","Y"," ","%","H",":","%","M",":","%","S">>,
    <<"%","d","-","%","b","-","%","Y"," ","%","H",":","%","M",":","%","S">>,
    <<"%","d","-","%","m","-","%","Y"," ","%","H",":","%","M",":","%","S">>,
    <<"%","d","/","%","m","/","%","Y"," ","%","H",":","%","M",":","%","S">>,
    <<"%","m","/","%","d","/","%","Y"," ","%","H",":","%","M",":","%","S">>,
    <<"%","Y","/","%","m","/","%","d"," ","%","H",":","%","M",":","%","S">>,
    <<"%","d",".","%","m",".","%","Y"," ","%","H",":","%","M",":","%","S">>,
    <<"%","Y","-","%","m","-","%","d"," ","%","H",":","%","M",":","%","S">>,
    <<"%","d","-","%","b","-","%","y"," ","%","H",":","%","M",":","%","S">>,
    <<"%","d","-","%","m","-","%","y"," ","%","H",":","%","M",":","%","S">>,
    <<"%","d","/","%","m","/","%","y"," ","%","H",":","%","M",":","%","S">>,
    <<"%","m","/","%","d","/","%","y"," ","%","H",":","%","M",":","%","S">>,
    <<"%","y","/","%","m","/","%","d"," ","%","H",":","%","M",":","%","S">>,
    <<"%","d"," ","%","B"," ","%","Y",";"," ","%","H",":","%","M">>,
    <<"%","d"," ","%","b"," ","%","Y",";"," ","%","H",":","%","M">>,
    <<"%","B"," ","%","d",","," ","%","Y",";"," ","%","H",":","%","M">>,
    <<"%","d","-","%","b","-","%","Y",";"," ","%","H",":","%","M">>,
    <<"%","d","-","%","m","-","%","Y",";"," ","%","H",":","%","M">>,
    <<"%","d","/","%","m","/","%","Y",";"," ","%","H",":","%","M">>,
    <<"%","m","/","%","d","/","%","Y",";"," ","%","H",":","%","M">>,
    <<"%","Y","/","%","m","/","%","d",";"," ","%","H",":","%","M">>,
    <<"%","d",".","%","m",".","%","Y",";"," ","%","H",":","%","M">>,
    <<"%","Y","-","%","m","-","%","d",";"," ","%","H",":","%","M">>,
    <<"%","d","-","%","b","-","%","y",";"," ","%","H",":","%","M">>,
    <<"%","d","-","%","m","-","%","y",";"," ","%","H",":","%","M">>,
    <<"%","d","/","%","m","/","%","y",";"," ","%","H",":","%","M">>,
    <<"%","m","/","%","d","/","%","y",";"," ","%","H",":","%","M">>,
    <<"%","y","/","%","m","/","%","d",";"," ","%","H",":","%","M">>,
    <<"%","d"," ","%","B"," ","%","Y"," ","%","H",":","%","M">>,
    <<"%","d"," ","%","b"," ","%","Y"," ","%","H",":","%","M">>,
    <<"%","B"," ","%","d",","," ","%","Y"," ","%","H",":","%","M">>,
    <<"%","d","-","%","b","-","%","Y"," ","%","H",":","%","M">>,
    <<"%","d","-","%","m","-","%","Y"," ","%","H",":","%","M">>,
    <<"%","d","/","%","m","/","%","Y"," ","%","H",":","%","M">>,
    <<"%","m","/","%","d","/","%","Y"," ","%","H",":","%","M">>,
    <<"%","Y","/","%","m","/","%","d"," ","%","H",":","%","M">>,
    <<"%","d",".","%","m",".","%","Y"," ","%","H",":","%","M">>,
    <<"%","Y","-","%","m","-","%","d"," ","%","H",":","%","M">>,
    <<"%","d","-","%","b","-","%","y"," ","%","H",":","%","M">>,
    <<"%","d","-","%","m","-","%","y"," ","%","H",":","%","M">>,
    <<"%","d","/","%","m","/","%","y"," ","%","H",":","%","M">>,
    <<"%","m","/","%","d","/","%","y"," ","%","H",":","%","M">>,
    <<"%","y","/","%","m","/","%","d"," ","%","H",":","%","M">>,
    <<"%","d"," ","%","B"," ","%","Y">>,
    <<"%","d"," ","%","b"," ","%","Y">>,
    <<"%","B"," ","%","d",","," ","%","Y">>,
    <<"%","d","-","%","b","-","%","Y">>,
    <<"%","d","-","%","m","-","%","Y">>,
    <<"%","d","/","%","m","/","%","Y">>,
    <<"%","m","/","%","d","/","%","Y">>,
    <<"%","Y","/","%","m","/","%","d">>,
    <<"%","d",".","%","m",".","%","Y">>,
    <<"%","Y","-","%","m","-","%","d">>,
    <<"%","d","-","%","b","-","%","y">>,
    <<"%","d","-","%","m","-","%","y">>,
    <<"%","d","/","%","m","/","%","y">>,
    <<"%","m","/","%","d","/","%","y">>,
    <<"%","y","/","%","m","/","%","d">>
    >>

\* the inner loop without the break: every format that parses the date adds
\* its datetime
RECURSIVE FirstFormat_NoBreak(_, _)
FirstFormat_NoBreak(date, k) ==
    IF k > Len(DATE_FORMATS) THEN <<>>
    ELSE LET r == strptime(date, DATE_FORMATS[k])
         IN  (IF r.ok THEN <<r.value>> ELSE <<>>)
             \o FirstFormat_NoBreak(date, k + 1)

\* the inner loop over DATE_FORMATS from format k on: the datetime of the
\* first format that parses the date, nothing when none does
RECURSIVE FirstFormat(_, _)
FirstFormat(date, k) ==
    IF k > Len(DATE_FORMATS) THEN <<>>
    ELSE LET r == strptime(date, DATE_FORMATS[k])
         IN  IF r.ok THEN <<r.value>> ELSE FirstFormat(date, k + 1)

\* the outer loop over the dates
RECURSIVE FormattedDates(_)
FormattedDates(dates) ==
    IF dates = <<>> THEN <<>>
    ELSE FirstFormat(Head(dates), 1) \o FormattedDates(Tail(dates))

parse_dates(dates) == DictFromKeys(FormattedDates(dates))

(***************************************************************************)
(* parser.extract_known_aliases                                            *)
(***************************************************************************)
\* the characters the class [^\d|^a-z] excludes: digits, '|', '^', a to z
AliasWordChars == Digits \cup LowerLetters \cup {"|", "^"}

\* re.compile(f'[^\d|^a-z]{name}[^\d|^a-z]').search(f' {text.lower()} ')
\* is not None
AliasFound(name, text) ==
    SearchBounded(AliasWordChars, Lower(name), Pad(Lower(text)))

\* the loop over the aliases: an entry adds its object ID when its alias is
\* found in the text, or else when the object ID itself is found
RECURSIVE AliasLoop(_, _)
AliasLoop(table, text) ==
    IF table = <<>> THEN <<>>
    ELSE (IF AliasFound(Head(table).alias, text)
          THEN <<Lower(Head(table).object_ID)>>
          ELSE IF AliasFound(Head(table).object_ID, text)
          THEN <<Lower(Head(table).object_ID)>>
          ELSE <<>>)
         \o AliasLoop(Tail(table), text)

\* re.compile(regex) raises re.error ("multiple repeat"): a name that starts
\* with '**' puts two repeats behind the boundary class of the pattern
AliasPatternError(name) ==
    /\ Len(name) >= 2
    /\ name[1] = "*"
    /\ name[2] = "*"

\* the loop over the aliases raises re.error: the pattern of an alias does
\* not compile, or the alias is not found and the pattern of its object ID
\* does not compile
AliasLoopRaises(table, text) ==
    \E i \in 1..Len(table) :
        \/ AliasPatternError(table[i].alias)
        \/ /\ ~AliasFound(table[i].alias, text)
           /\ AliasPatternError(table[i].object_ID)

\* extract_known_aliases(text), table being what get_all_aliases() returns
extract_known_aliases(text, table) == DictFromKeys(AliasLoop(table, text))

(***************************************************************************)
(* parser.extract_coords and parser.parse_coords                           *)
(***************************************************************************)
extract_coords(text) == <<>>

parse_coords(coords) == <<>>

(***************************************************************************)
(* The document: what BeautifulSoup finds in the HTML string.              *)
(*   title      the h1 element of class 'title': present, and its text    *)
(*   strong     the texts of the strong elements, in document order       *)
(*   paragraphs the p elements: text, plain (neither class nor align),    *)
(*              iframe (an iframe inside)                                  *)
(*   references the div of id 'references': present, and its text         *)
(*   telegram   the div of id 'telegram': present, and its anchors with   *)
(*              an href: has_url (the href contains url_string), rest     *)
(*              (the href without url_string), text (the label)           *)
(*   subjects   the p element of class 'subjects': present, and its text  *)
(***************************************************************************)
\* str.strip()
RECURSIVE LStrip(_), RStrip(_)
LStrip(s) == IF s # <<>> /\ Head(s) \in Whitespace THEN LStrip(Tail(s)) ELSE s
RStrip(s) ==
    IF s # <<>> /\ s[Len(s)] \in Whitespace
    THEN RStrip(SubSeq(s, 1, Len(s) - 1)) ELSE s
Strip(s) == LStrip(RStrip(s))

\* sub in s
Contains(sub, s) ==
    \E p \in 1..(Len(s) - Len(sub) + 1) : SubSeq(s, p, p + Len(sub) - 1) = sub

\* re.findall('\d+', s): the runs of digits
DigitRuns(s) == FindAllRegex([t |-> "plus", r |-> Digit], s, 1)

\* [int(n) for n in ns]
Ints(ns) == [i \in 1..Len(ns) |-> ToInt(ns[i])]

ReferredToMarker ==
    <<"R","e","f","e","r","r","e","d"," ","t","o"," ","b","y"," ","A","T","e","l"," ","#",":">>

LabelPrevious == <<"P","r","e","v","i","o","u","s">>
LabelNext == <<"N","e","x","t">>

\* '%d %b %Y; %H:%M UT'
SubmissionFormat ==
    <<"%","d"," ","%","b"," ","%","Y",";"," ","%","H",":","%","M"," ","U","T">>

(***************************************************************************)
(* parser.parse_report                                                     *)
(***************************************************************************)
\* the paragraph is part of the body
IsBodyParagraph(p) ==
    /\ p.plain
    /\ ~p.iframe
    /\ Len(Strip(p.text)) # 0
    /\ ~Contains(ReferredToMarker, Strip(p.text))

\* what the paragraph adds to body: its text as it is when the text holds a
\* line break, its text and a line break otherwise
BodyPiece(p) ==
    IF "\n" \in Range(p.text) THEN p.text ELSE p.text \o <<"\n">>

RECURSIVE BodyLoop(_)
BodyLoop(ps) ==
    IF ps = <<>> THEN <<>>
    ELSE (IF IsBodyParagraph(Head(ps)) THEN BodyPiece(Head(ps)) ELSE <<>>)
         \o BodyLoop(Tail(ps))

\* referenced_by: the numbers in the text of the references div
ReferencedBy(html) ==
    DictFromKeys(Ints(IF html.references.present
                      THEN DigitRuns(html.references.text) ELSE <<>>))

\* the anchor counts as a link to a report
IsReportLink(link) ==
    /\ link.has_url
    /\ link.rest # <<>>
    /\ link.text # LabelPrevious
    /\ link.text # LabelNext

ReportLinks(links) == SelectSeq(links, IsReportLink)

\* re.search('\d+', link['href']) is None: num.group() raises AttributeError
LinkWithoutNumber(links) ==
    \E i \in 1..Len(links) : IsReportLink(links[i]) /\ DigitRuns(links[i].rest) = <<>>

\* referenced_reports after the loop over the links
LinkNumbers(links) ==
    LET kept == ReportLinks(links)
    IN  [i \in 1..Len(kept) |-> ToInt(Head(DigitRuns(kept[i].rest)))]

\* list.remove(x): the first x is taken out of the list
RemoveFirst(xs, x) ==
    LET i == CHOOSE k \in 1..Len(xs) :
                 xs[k] = x /\ \A j \in 1..(k - 1) : xs[j] # x
    IN  SubSeq(xs, 1, i - 1) \o SubSeq(xs, i + 1, Len(xs))

\* the loop referenced_reports.remove(referenced_by_num): ok is FALSE where
\* remove raises ValueError because the number is not in the list
RECURSIVE RemoveLoop(_, _)
RemoveLoop(reports, by) ==
    IF by = <<>> THEN [ok |-> TRUE, value |-> reports]
    ELSE IF Head(by) \notin Range(reports) THEN [ok |-> FALSE, value |-> reports]
    ELSE RemoveLoop(RemoveFirst(reports, Head(by)), Tail(by))

\* ImportedReport(...): the report holds the values it is given
ImportedReport(atel_num, title, authors, body, submission_date, referenced_reports, observation_dates, keywords, objects, coordinates, referenced_by) ==
    [atel_num |-> atel_num, title |-> title, authors |-> authors,
     body |-> body, submission_date |-> submission_date,
     referenced_reports |-> referenced_reports,
     observation_dates |-> observation_dates, keywords |-> keywords,
     objects |-> objects, coordinates |-> coordinates,
     referenced_by |-> referenced_by]

NoReport ==
    ImportedReport(0, <<>>, <<>>, <<>>, DateTime(DefaultFields),
                   <<>>, <<>>, <<>>, <<>>, <<>>, <<>>)

\* the call ended with an exception of the given type
Raised(error) == [status |-> "failed", error |-> error, report |-> NoReport]

\* the call returned the report
Assembled(report) == [status |-> "assembled", error |-> "", report |-> report]

\* the last statements of parse_report, once the document is segmented
AssembleReport(atel_num, html, table, body, submission_date, referenced_reports) ==
    LET title == Strip(html.title.text)
        authors == Strip(html.strong[1])
        subjects == IF html.subjects.present THEN html.subjects.text ELSE <<>>
        text == title \o <<" ">> \o Strip(body)
    IN  IF AliasLoopRaises(table, text) THEN Raised("re.error")
        ELSE Assembled(ImportedReport(
            atel_num, title, authors, Strip(body), submission_date,
            DictFromKeys(referenced_reports),
            parse_dates(extract_dates(text)),
            extract_keywords(title \o <<" ">> \o subjects \o <<" ">> \o Strip(body)),
            extract_known_aliases(text, table),
            parse_coords(extract_coords(text)),
            ReferencedBy(html)))

\* parse_report(atel_num, html_string), table being the aliases in the
\* database when extract_known_aliases reads them
parse_report(atel_num, html, table) ==
    IF ~html.title.present THEN Raised("AttributeError")
    ELSE IF Len(html.strong) = 0 THEN Raised("AttributeError")
    ELSE IF Len(html.strong) < 2 THEN Raised("IndexError")
    ELSE LET submitted == strptime(Strip(html.strong[2]), SubmissionFormat)
         IN  IF ~submitted.ok THEN Raised("ValueError")
             ELSE IF ~html.telegram.present THEN Raised("AttributeError")
             ELSE IF LinkWithoutNumber(html.telegram.links)
             THEN Raised("AttributeError")
             ELSE LET removed == RemoveLoop(LinkNumbers(html.telegram.links),
                                            ReferencedBy(html))
                  IN  IF ~removed.ok THEN Raised("ValueError")
                      ELSE AssembleReport(atel_num, html, table,
                                          BodyLoop(html.paragraphs),
                                          submitted.value, removed.value)

(***************************************************************************)
(* importer.parse_report                                                   *)
(***************************************************************************)
\* MONTHS_REGEX = 'Jan|Feb|...|Dec', with the month numbers of the if chain
MONTHS_REGEX ==
    << <<1, <<"J","a","n">> >>, <<2, <<"F","e","b">> >>,
       <<3, <<"M","a","r">> >>, <<4, <<"A","p","r">> >>,
       <<5, <<"M","a","y">> >>, <<6, <<"J","u","n">> >>,
       <<7, <<"J","u","l">> >>, <<8, <<"A","u","g">> >>,
       <<9, <<"S","e","p">> >>, <<10, <<"O","c","t">> >>,
       <<11, <<"N","o","v">> >>, <<12, <<"D","e","c">> >> >>

\* datetime(year, month, day, hour, minute) raises no ValueError
ValidSubmission(year, month, day, hour, minute) ==
    /\ year >= 1 /\ year <= 9999
    /\ day >= 1 /\ day <= DaysInMonth(year, month)
    /\ hour <= 23
    /\ minute <= 59

\* importer.parse_report(atel_num, html_string)
importer_parse_report(atel_num, html) ==
    IF ~html.title.present THEN Raised("AttributeError")
    ELSE IF Len(html.strong) = 0 THEN Raised("AttributeError")
    ELSE IF Len(html.strong) < 2 THEN Raised("IndexError")
    ELSE LET submission_date == Strip(html.strong[2])
             datetime_values == Ints(DigitRuns(submission_date))
             month == SearchRegex(MonthNames(MONTHS_REGEX), submission_date, 1)
             body == Strip(BodyLoop(html.paragraphs))
         IN  IF month = <<>> THEN Raised("AttributeError")
             ELSE IF Len(datetime_values) < 4 THEN Raised("IndexError")
             ELSE IF ~ValidSubmission(datetime_values[2],
                                      MonthNumber(MONTHS_REGEX, month),
                                      datetime_values[1], datetime_values[3],
                                      datetime_values[4])
             THEN Raised("ValueError")
             ELSE Assembled(ImportedReport(
                      atel_num, Strip(html.title.text), Strip(html.strong[1]),
                      body,
                      <<datetime_values[2], MonthNumber(MONTHS_REGEX, month),
                        datetime_values[1], datetime_values[3],
                        datetime_values[4], 0>>,
                      <<>>, <<>>, importer_extract_keywords(body),
                      <<>>, <<>>, <<>>))

(***************************************************************************)
(* importer.download_report: the call goes through the statements of the   *)
(* try block, an except clause where one applies, and the finally clause.  *)
(***************************************************************************)
\* what session.get(url) does: it returns, or it raises
GetOutcomes == {"ok", "ConnectionError", "HTTPError", "OtherError"}

\* what request.html.render(timeout=20) does
RenderOutcomes == {"ok", "TimeoutError", "OtherError"}

\* every handled exception turned into NetworkError
Classify_AllNetwork(error) ==
    IF error \in {"ConnectionError", "HTTPError", "TimeoutError"}
    THEN "NetworkError" ELSE error

\* the exception the call ends with when the try block raised error: the
\* except clauses turn three exceptions into two, any other passes through
Classify(error) ==
    CASE error = "ConnectionError" -> "NetworkError"
      [] error = "HTTPError" -> "NetworkError"
      [] error = "TimeoutError" -> "DownloadFailError"
      [] OTHER -> error

(***************************************************************************)
(* Input texts.                                                            *)
(***************************************************************************)
\* the inputs of test_keywords_extractor
KeywordTestTexts ==
    {
    <<"T","h","i","s"," ","i","s"," ","a"," ","t","e","s","t">>,
    <<"T","h","e"," ","p","l","a","n","e","t",","," ","e","x","o","p","l","a","n","e","t",","," ","p","l","a","n","e","t","(","m","i","n","o","r",")"," ","a","r","e"," ","a","s","t","r","o","n","o","m","i","c","a","l"," ","t","e","r","m","s">>,
    <<"T","h","e"," ","P","l","A","n","e","t",","," ","e","x","o","P","l","A","n","E","t",","," ","p","l","A","N","e","t","(","M","I","N","o","R",")"," ","a","r","e"," ","a","s","t","r","o","n","o","m","i","c","a","l"," ","t","e","r","m","s">>,
    <<"f","a","r","-","i","n","f","r","a","-","r","e","d"," ","a","n","d"," ","i","n","f","r","a","-","r","e","d">>,
    <<"c","o","m","m","e","n","t">>,
    <<">"," ","g","e","v",","," ","g","r","a","v","i","t","a","t","i","O","n","a","l"," ","w","a","v","e","s",","," ","g","r","a","V","i","t","a","t","I","o","n","a","l"," ","l","e","n","S","i","N","g"," ","a","n","d"," ","w","a","v","e","s">>,
    <<"n","o","v","a",","," ","A","S","T","E","R","O","I","D","(","b","i","n","a","r","y",")"," ","a","n","d"," ","s","u","p","e","r","n","o","v","a"," ","r","e","m","n","a","n","t">>
    }

\* pieces of text the other inputs are put together from
KeywordFragments ==
    {
    <<"n","o","v","a">>,
    <<"s","u","p","e","r">>,
    <<"N","o","v","a"," ","r","e","m","n","a","n","t">>,
    <<"A","S","T","E","R","O","I","D">>,
    <<"(","b","i","n","a","r","y",")">>,
    <<"f","a","r","-">>,
    <<"i","n","f","r","a","-","r","e","d">>,
    <<"a"," ">>,
    <<"c","o","m","m","e","n","t">>,
    <<" ">>,
    <<","," ">>,
    <<"P","l","A","n","e","t">>,
    <<"e","x","o">>,
    <<"r","e","m","n","a","n","t">>,
    <<"X","-","R","a","y">>
    }

\* pieces of text the inputs of extract_dates are put together from
DateFragments ==
    {
    <<"0","1"," ","F","e","b"," ","1","9","9","9">>,
    <<"2"," ","f","e","b","r","u","a","r","y"," ","2","0","0","1">>,
    <<"3"," ","M","a","r"," ","2","0","0","0">>,
    <<"1","9","9","9","-","0","2","-","0","1">>,
    <<" ","1","0",":","3","0">>,
    <<" ">>,
    <<","," ">>,
    <<"x">>,
    <<"7">>
    }

\* pieces of text the inputs of extract_known_aliases are put together from
AliasFragments ==
    {
    <<"A","n","d","r","o","m","e","d","a">>,
    <<"M","3","1">>,
    <<"m"," ","3","1">>,
    <<"V","1">>,
    <<"|">>,
    <<" ">>,
    <<"x">>,
    <<"7">>
    }

\* raw date strings handed to parse_dates: strings extract_dates returns,
\* among them one that names no day of the calendar, and a string that is
\* no date
RawDatePool ==
    {
    <<"0","1"," ","f","e","b"," ","1","9","9","9">>,
    <<"1"," ","f","e","b","r","u","a","r","y"," ","1","9","9","9">>,
    <<"0","1","/","0","2","/","9","9">>,
    <<"3","1"," ","f","e","b"," ","1","9","9","9">>,
    <<"1","9","9","9","-","0","2","-","0","1"," ","1","0",":","3","0">>,
    <<"s","o","o","n">>
    }

(***************************************************************************)
(* Input documents.                                                        *)
(***************************************************************************)
\* paragraphs a document is put together from
ParagraphPool ==
    { [text |-> <<"N","o","v","a"," ","s","e","e","n"," ","0","1"," ","F","e","b"," ","1","9","9","9",","," ","1"," ","f","e","b"," ","1","9","9","9",".">>, plain |-> TRUE, iframe |-> FALSE],
      [text |-> <<"X","-","r","a","y","\n","s","o","u","r","c","e">>, plain |-> TRUE, iframe |-> FALSE],
      [text |-> <<"i","n"," ","M","3","1","\n">>, plain |-> TRUE, iframe |-> FALSE],
      [text |-> <<" ","\n">>, plain |-> TRUE, iframe |-> FALSE],
      [text |-> <<"R","e","f","e","r","r","e","d"," ","t","o"," ","b","y"," ","A","T","e","l"," ","#",":"," ","5">>, plain |-> TRUE, iframe |-> FALSE],
      [text |-> <<"a","d">>, plain |-> TRUE, iframe |-> TRUE],
      [text |-> <<"T","w","e","e","t">>, plain |-> FALSE, iframe |-> FALSE] }

\* anchors of the telegram container
LinkPool ==
    { [has_url |-> TRUE, rest |-> <<"5">>, text |-> <<"A","T","e","l"," ","#","5">>],
      [has_url |-> TRUE, rest |-> <<"6">>, text |-> <<"6">>],
      [has_url |-> TRUE, rest |-> <<>>, text |-> <<"h","o","m","e">>],
      [has_url |-> TRUE, rest |-> <<"4">>, text |-> <<"P","r","e","v","i","o","u","s">>],
      [has_url |-> TRUE, rest |-> <<"a","b","c">>, text |-> <<"b","r","o","k","e","n">>],
      [has_url |-> FALSE, rest |-> <<"x","?","r","e","a","d","=","7">>, text |-> <<"o","t","h","e","r">>] }

\* texts of the references div
ReferencesPool ==
    { <<>>,
      <<"R","e","f","e","r","r","e","d"," ","t","o"," ","b","y"," ","A","T","e","l"," ","#",":"," ","5">>,
      <<"5",","," ","6">>,
      <<"5"," ","6"," ","5">> }

\* texts of the second strong element: the submission date of ATel #1000,
\* and a date in another format
SubmissionText ==
    <<"1","1"," ","F","e","b"," ","2","0","0","7",";"," ","0","9",":","4","8"," ","U","T">>
OtherDateText ==
    <<"1","1"," ","F","e","b","r","u","a","r","y"," ","2","0","0","7">>

TitleText == <<"N","o","v","a"," ","i","n"," ","M","3","1">>
AuthorsText == <<"A","."," ","A","u","t","h","o","r">>
SubjectsText == <<"S","u","b","j","e","c","t","s",":"," ","O","p","t","i","c","a","l",","," ","N","o","v","a">>

\* the sequences of at most n elements of a set
SeqsUpTo(S, n) == UNION {[1..k -> S] : k \in 0..n}

Present(value) == [present |-> TRUE, text |-> value]
Absent == [present |-> FALSE, text |-> <<>>]

\* a document with every element parse_report looks for
Document(paragraphs, references, links) ==
    [title |-> Present(TitleText),
     strong |-> <<AuthorsText, SubmissionText>>,
     paragraphs |-> paragraphs,
     references |-> references,
     telegram |-> [present |-> TRUE, links |-> links],
     subjects |-> Present(SubjectsText)]

\* documents that differ in their paragraphs
BodyDocuments ==
    {Document(ps, Absent, <<>>) : ps \in SeqsUpTo(ParagraphPool, MaxParagraphs)}

\* documents that differ in their anchors and in their references div
LinkDocuments ==
    {Document(<<>>, refs, links) :
        refs \in {Absent} \cup {Present(r) : r \in ReferencesPool},
        links \in SeqsUpTo(LinkPool, MaxLinks)}

\* documents that differ in the elements that are there
StructureDocuments ==
    {[title |-> title, strong |-> strong,
      paragraphs |-> <<>>,
      references |-> Absent,
      telegram |-> [present |-> telegram, links |-> <<>>],
      subjects |-> subjects] :
        title \in {Absent, Present(TitleText)},
        strong \in {<<>>, <<AuthorsText>>}
                   \cup {<<AuthorsText, s>> : s \in {SubmissionText, OtherDateText}},
        telegram \in BOOLEAN,
        subjects \in {Absent, Present(SubjectsText)}}

\* a document as the site serves it: a paragraph that names a date in two
\* ways, a references div that names a report twice, and in the telegram
\* container the anchors of the references div and two links to one report
SampleDocument ==
    Document(<<CHOOSE p \in ParagraphPool : Len(extract_dates(p.text)) = 2>>,
             Present(<<"5"," ","6"," ","5">>),
             << [has_url |-> TRUE, rest |-> <<"5">>, text |-> <<"5">>],
                [has_url |-> TRUE, rest |-> <<"6">>, text |-> <<"6">>],
                [has_url |-> TRUE, rest |-> <<"7">>, text |-> <<"A","T","e","l"," ","#","7">>],
                [has_url |-> TRUE, rest |-> <<"7">>, text |-> <<"#","7">>] >>)

\* documents read with the alias tables
AliasDocuments ==
    {SampleDocument} \cup {Document(<<p>>, Absent, <<>>) : p \in ParagraphPool}

\* alias tables of the database
AliasPool ==
    { [alias |-> <<"a","n","d","r","o","m","e","d","a">>, object_ID |-> <<"M","3","1">>],
      [alias |-> <<"m"," ","3","1">>, object_ID |-> <<"M","3","1">>],
      [alias |-> <<"n","o","v","a">>, object_ID |-> <<"V","1">>],
      [alias |-> <<"*","*"," ","S","T","F"," ","1">>, object_ID |-> <<"V","1">>] }

(***************************************************************************)
(* State.                                                                  *)
(***************************************************************************)
VARIABLES
    atel_num,   \* the number of the report handed to parse_report
    html,       \* the document handed to parse_report
    aliases,    \* the alias table in the database, as get_all_aliases reads it
    records,    \* what the calls of parser.parse_report returned, in order
    imported,   \* what importer.parse_report returned, once called
    text,       \* the text handed to the extractor functions
    out,        \* what each extractor function returned for text, once called
    dl,         \* the call of download_report under way
    dl_log,     \* how the calls of download_report ended, in order
    db,         \* the numbers of the reports in the database
    imports     \* the calls of import_report, one for each caller

parseVars == <<atel_num, html, aliases, records, imported>>
textVars == <<text, out>>
dlVars == <<dl, dl_log>>
impVars == <<db, imports>>
vars == <<parseVars, textVars, dlVars, impVars>>

\* a function that has not been called yet, and one that returned v
NotCalled == [called |-> FALSE, value |-> <<>>]
Returned(v) == [called |-> TRUE, value |-> v]

NoOutput ==
    [keywords |-> NotCalled, importer_keywords |-> NotCalled,
     dates |-> NotCalled, parsed |-> NotCalled, objects |-> NotCalled]

\* no call of download_report is under way
NoDownload ==
    [pc |-> "idle", atel_num |-> 0, session |-> "none", raised |-> "",
     stage |-> "", error |-> "", html |-> FALSE]

\* the state of a run that parses no document
NoParse ==
    /\ atel_num = 1000
    /\ html = Document(<<>>, Absent, <<>>)
    /\ aliases = <<>>
    /\ records = <<>>
    /\ imported = [called |-> FALSE, value |-> Raised("")]

\* the state of a run that calls no extractor function by itself
NoText ==
    /\ text = <<>>
    /\ out = NoOutput

\* the state of a run that downloads nothing
NoDownloads ==
    /\ dl = NoDownload
    /\ dl_log = <<>>

\* a caller that has not called import_report
NotImporting ==
    [pc |-> "idle", atel_num |-> 0, existed |-> FALSE, error |-> "",
     added |-> FALSE]

\* the state of a run that imports nothing
NoImports ==
    /\ db = {}
    /\ imports = [p \in 1..MaxImporters |-> NotImporting]

(***************************************************************************)
(* The keyword extractors applied to a text.                               *)
(***************************************************************************)
\* the texts of at most n fragments
FragmentTexts(frags, n) == {Concat(f) : f \in SeqsUpTo(frags, n)}

KeywordTexts == KeywordTestTexts \cup FragmentTexts(KeywordFragments, MaxFrags)

InitKeywords ==
    /\ text \in KeywordTexts
    /\ out = NoOutput
    /\ NoParse
    /\ NoDownloads
    /\ NoImports

\* a call of parser.extract_keywords(text)
ExtractKeywords ==
    /\ ~out.keywords.called
    /\ out' = [out EXCEPT !.keywords = Returned(extract_keywords(text))]
    /\ UNCHANGED <<parseVars, text, dlVars, impVars>>

\* a call of importer.extract_keywords(text)
ImporterExtractKeywords ==
    /\ ~out.importer_keywords.called
    /\ out' = [out EXCEPT !.importer_keywords =
                              Returned(importer_extract_keywords(text))]
    /\ UNCHANGED <<parseVars, text, dlVars, impVars>>

NextKeywords == ExtractKeywords \/ ImporterExtractKeywords

SpecKeywords == InitKeywords /\ [][NextKeywords]_vars

(***************************************************************************)
(* The date extractor applied to a text.                                   *)
(***************************************************************************)
DateTexts == FragmentTexts(DateFragments, MaxDateFrags)

InitDates ==
    /\ text \in DateTexts
    /\ out = NoOutput
    /\ NoParse
    /\ NoDownloads
    /\ NoImports

\* a call of parser.extract_dates(text)
ExtractDates ==
    /\ ~out.dates.called
    /\ out' = [out EXCEPT !.dates = Returned(extract_dates(text))]
    /\ UNCHANGED <<parseVars, text, dlVars, impVars>>

NextDates == ExtractDates

SpecDates == InitDates /\ [][NextDates]_vars

(***************************************************************************)
(* extract_known_aliases applied to a text, with an alias table in the     *)
(* database.                                                               *)
(***************************************************************************)
AliasTexts == FragmentTexts(AliasFragments, MaxFrags)

InitAliases ==
    /\ text \in AliasTexts
    /\ out = NoOutput
    /\ atel_num = 1000
    /\ html = Document(<<>>, Absent, <<>>)
    /\ aliases \in SeqsUpTo(AliasPool, MaxAliases)
    /\ records = <<>>
    /\ imported = [called |-> FALSE, value |-> Raised("")]
    /\ NoDownloads
    /\ NoImports

\* a call of parser.extract_known_aliases(text)
ExtractKnownAliases ==
    /\ ~out.objects.called
    /\ out' = [out EXCEPT !.objects =
                  Returned(IF AliasLoopRaises(aliases, text)
                           THEN [raised |-> "re.error", value |-> <<>>]
                           ELSE [raised |-> "",
                                 value |-> extract_known_aliases(text, aliases)])]
    /\ UNCHANGED <<parseVars, text, dlVars, impVars>>

SpecAliases == InitAliases /\ [][ExtractKnownAliases]_vars

(***************************************************************************)
(* parse_dates applied to a list of raw date strings.                      *)
(***************************************************************************)
InitParseDates ==
    /\ NoText
    /\ NoParse
    /\ NoDownloads
    /\ NoImports

\* a call of parser.parse_dates(dates)
ParseDates ==
    /\ ~out.parsed.called
    /\ \E dates \in SeqsUpTo(RawDatePool, MaxRawDates) :
          out' = [out EXCEPT !.parsed =
                      Returned([dates |-> dates, value |-> parse_dates(dates)])]
    /\ UNCHANGED <<parseVars, text, dlVars, impVars>>

SpecParseDates == InitParseDates /\ [][ParseDates]_vars

(***************************************************************************)
(* The two parse_report functions applied to a document.                   *)
(***************************************************************************)
InitParse ==
    /\ atel_num = 1000
    /\ \/ html \in AliasDocuments /\ aliases \in SeqsUpTo(AliasPool, MaxAliases)
       \/ /\ html \in BodyDocuments \cup LinkDocuments \cup StructureDocuments
          /\ aliases = <<>>
    /\ records = <<>>
    /\ imported = [called |-> FALSE, value |-> Raised("")]
    /\ NoText
    /\ NoDownloads
    /\ NoImports

\* parse_report with the keywords list kept from one call to the next
ParseReport_KeywordsKept ==
    /\ Len(records) < MaxCalls
    /\ LET result == parse_report(atel_num, html, aliases)
           kept == IF records = <<>> THEN <<>>
                   ELSE records[Len(records)].result.report.keywords
       IN  records' = Append(records,
                             [aliases_read |-> aliases,
                              result |-> [result EXCEPT !.report.keywords =
                                                            kept \o @]])
    /\ UNCHANGED <<atel_num, html, aliases, imported, textVars, dlVars, impVars>>

\* a call of parser.parse_report(atel_num, html): records gets what the call
\* returned or raised, with the aliases get_all_aliases gave it
ParseReport ==
    /\ Len(records) < MaxCalls
    /\ records' = Append(records,
                         [aliases_read |-> aliases,
                          result |-> parse_report(atel_num, html, aliases)])
    /\ UNCHANGED <<atel_num, html, aliases, imported, textVars, dlVars, impVars>>

\* a call of importer.parse_report(atel_num, html)
ImporterParseReport ==
    /\ ~imported.called
    /\ imported' = Returned(importer_parse_report(atel_num, html))
    /\ UNCHANGED <<atel_num, html, aliases, records, textVars, dlVars, impVars>>

NextParse == ParseReport \/ ImporterParseReport

SpecParse == InitParse /\ [][NextParse]_vars

(***************************************************************************)
(* The two parse_report functions called with report numbers of any sign,  *)
(* on documents whose anchors may lead to the report itself.               *)
(***************************************************************************)
\* the numbers parse_report is called with: the code takes any int
AtelNums == {-1, 0, 5, 6}

InitNumbers ==
    /\ atel_num \in AtelNums
    /\ html \in LinkDocuments
    /\ aliases = <<>>
    /\ records = <<>>
    /\ imported = [called |-> FALSE, value |-> Raised("")]
    /\ NoText
    /\ NoDownloads
    /\ NoImports

SpecNumbers == InitNumbers /\ [][NextParse]_vars

(***************************************************************************)
(* parser.parse_report called more than once on a document, while the      *)
(* alias table of the database grows.                                      *)
(***************************************************************************)
InitRepeat ==
    /\ atel_num = 1000
    /\ html \in AliasDocuments
    /\ aliases = <<>>
    /\ records = <<>>
    /\ imported = [called |-> FALSE, value |-> Raised("")]
    /\ NoText
    /\ NoDownloads
    /\ NoImports

\* the database gets another alias
StoreAlias ==
    /\ Len(aliases) < MaxAliases
    /\ \E a \in AliasPool : aliases' = Append(aliases, a)
    /\ UNCHANGED <<atel_num, html, records, imported, textVars, dlVars, impVars>>

NextRepeat == ParseReport \/ StoreAlias

SpecRepeat == InitRepeat /\ [][NextRepeat]_vars

(***************************************************************************)
(* Calls of importer.download_report, one after the other.                 *)
(***************************************************************************)
InitDownload ==
    /\ NoParse
    /\ NoText
    /\ NoDownloads
    /\ NoImports

\* download_report(n) is called: session = HTMLSession()
DownloadCall ==
    /\ dl.pc = "idle"
    /\ Len(dl_log) < MaxDownloads
    /\ \E n \in 1..MaxAtelNum :
          dl' = [NoDownload EXCEPT !.pc = "get", !.atel_num = n,
                                   !.session = "open"]
    /\ UNCHANGED <<parseVars, textVars, dl_log, impVars>>

\* request = session.get(url)
DownloadGet ==
    /\ dl.pc = "get"
    /\ \E outcome \in GetOutcomes :
          dl' = IF outcome = "ok" THEN [dl EXCEPT !.pc = "render"]
                ELSE [dl EXCEPT !.pc = "except", !.raised = outcome,
                                !.stage = "get"]
    /\ UNCHANGED <<parseVars, textVars, dl_log, impVars>>

\* request.html.render(timeout=20); html = request.html.raw_html; return html
DownloadRender ==
    /\ dl.pc = "render"
    /\ \E outcome \in RenderOutcomes :
          dl' = IF outcome = "ok"
                THEN [dl EXCEPT !.pc = "finally", !.html = TRUE]
                ELSE [dl EXCEPT !.pc = "except", !.raised = outcome,
                                !.stage = "render"]
    /\ UNCHANGED <<parseVars, textVars, dl_log, impVars>>

\* the except clauses: the exception the call will end with
DownloadExcept ==
    /\ dl.pc = "except"
    /\ dl' = [dl EXCEPT !.pc = "finally", !.error = Classify(dl.raised)]
    /\ UNCHANGED <<parseVars, textVars, dl_log, impVars>>

\* the finally clause without session.close()
DownloadFinally_NoClose ==
    /\ dl.pc = "finally"
    /\ dl' = [dl EXCEPT !.pc = "idle"]
    /\ dl_log' = Append(dl_log,
                        [atel_num |-> dl.atel_num, stage |-> dl.stage,
                         raised |-> dl.raised, error |-> dl.error,
                         html |-> dl.html])
    /\ UNCHANGED <<parseVars, textVars, impVars>>

\* finally: session.close(); the call then ends, with the HTML or with the
\* exception
DownloadFinally ==
    /\ dl.pc = "finally"
    /\ dl' = [dl EXCEPT !.pc = "idle", !.session = "closed"]
    /\ dl_log' = Append(dl_log,
                        [atel_num |-> dl.atel_num, stage |-> dl.stage,
                         raised |-> dl.raised, error |-> dl.error,
                         html |-> dl.html])
    /\ UNCHANGED <<parseVars, textVars, impVars>>

NextDownload ==
    \/ DownloadCall
    \/ DownloadGet
    \/ DownloadRender
    \/ DownloadExcept
    \/ DownloadFinally

SpecDownload == InitDownload /\ [][NextDownload]_vars

(***************************************************************************)
(* Concurrent calls of importer.import_report.  The body of the function   *)
(* is the statement pass: the lines that look the report up and raise      *)
(* ReportAlreadyExistsError are comments.                                  *)
(***************************************************************************)
InitImport ==
    /\ NoParse
    /\ NoText
    /\ NoDownloads
    /\ db \in SUBSET (1..MaxAtelNum)
    /\ imports = [p \in 1..MaxImporters |-> NotImporting]

\* caller p calls import_report(n)
ImportCall(p) ==
    /\ imports[p].pc = "idle"
    /\ \E n \in 1..MaxAtelNum :
          imports' = [imports EXCEPT ![p] = [NotImporting EXCEPT
                                               !.pc = "body", !.atel_num = n,
                                               !.existed = n \in db]]
    /\ UNCHANGED <<parseVars, textVars, dlVars, db>>

\* pass: the call of caller p returns; nothing is raised, nothing is stored
ImportPass(p) ==
    /\ imports[p].pc = "body"
    /\ imports' = [imports EXCEPT ![p].pc = "returned"]
    /\ UNCHANGED <<parseVars, textVars, dlVars, db>>

NextImport == \E p \in 1..MaxImporters : ImportCall(p) \/ ImportPass(p)

SpecImport == InitImport /\ [][NextImport]_vars

(***************************************************************************)
(* Claims about the keyword extractors.                                    *)
(***************************************************************************)
\* vocabulary entry i occurs in h at position p
EntryAt(i, h, p) ==
    /\ p >= 1
    /\ p + Len(FIXED_KEYWORDS[i]) - 1 <= Len(h)
    /\ SubSeq(h, p, p + Len(FIXED_KEYWORDS[i]) - 1) = FIXED_KEYWORDS[i]

\* the occurrence of entry i at p lies inside an occurrence of a longer entry
InsideLongerEntry(i, h, p) ==
    \E j \in 1..Len(FIXED_KEYWORDS) :
        /\ Len(FIXED_KEYWORDS[j]) > Len(FIXED_KEYWORDS[i])
        /\ \E q \in 1..p :
              /\ EntryAt(j, h, q)
              /\ q + Len(FIXED_KEYWORDS[j]) >= p + Len(FIXED_KEYWORDS[i])

\* entry i occurs in the text as a whole token of its own: between two
\* characters that are no letters, and not inside a longer entry
WholeToken(i, t) ==
    LET h == Pad(Lower(t))
    IN  \E p \in 2..Len(h) :
            /\ EntryAt(i, h, p)
            /\ h[p - 1] \notin LowerLetters
            /\ h[p + Len(FIXED_KEYWORDS[i])] \notin LowerLetters
            /\ ~InsideLongerEntry(i, h, p)

NovaSentence ==
    <<"n","o","v","a",","," ","A","S","T","E","R","O","I","D","(","b","i","n","a","r","y",")"," ","a","n","d"," ","s","u","p","e","r","n","o","v","a"," ","r","e","m","n","a","n","t">>

NovaSentenceKeywords ==
    { <<"n","o","v","a">>,
      <<"a","s","t","e","r","o","i","d","(","b","i","n","a","r","y",")">>,
      <<"s","u","p","e","r","n","o","v","a"," ","r","e","m","n","a","n","t">> }

\* C4: parser.extract_keywords emits a label only when its entry occurs in
\* the text as a whole token of its own, never for an occurrence inside a
\* longer word or a longer vocabulary entry; in particular the text 'nova,
\* ASTEROID(binary) and supernova remnant' yields exactly nova,
\* asteroid(binary) and supernova remnant.
C4_WholeTokensOnly ==
    out.keywords.called =>
        /\ \A i \in 1..Len(FIXED_KEYWORDS) :
              FIXED_KEYWORDS[i] \in Range(out.keywords.value) =>
                  WholeToken(i, text)
        /\ text = NovaSentence =>
              Range(out.keywords.value) = NovaSentenceKeywords

\* C5: extract_keywords returns for a text the labels it returns for the
\* lower-cased text, in the vocabulary-order mode of parser.py and in the
\* combined-alternation mode of importer.py.
C5_CaseInsensitive ==
    /\ out.keywords.called =>
          out.keywords.value = extract_keywords(Lower(text))
    /\ out.importer_keywords.called =>
          out.importer_keywords.value = importer_extract_keywords(Lower(text))

\* both extractors have returned keywords for a text with upper-case letters
C5_Witness ==
    /\ text # Lower(text)
    /\ out.keywords.called /\ out.keywords.value # <<>>
    /\ out.importer_keywords.called /\ out.importer_keywords.value # <<>>


\* the patterns of the vocabulary that match in the text
MatchedPatterns(t) ==
    {i \in 1..Len(KEYWORD_REGEXES) :
        SearchBounded(LowerLetters, KEYWORD_REGEXES[i], Pad(Lower(t)))}

\* the positions of the lower-cased text at which the label starts
Occurrences(label, t) ==
    {p \in 1..(Len(t) - Len(label) + 1) :
        SubSeq(Lower(t), p, p + Len(label) - 1) = label}

\* C19: parser.extract_keywords returns the labels in the order of the
\* vocabulary, wherever and however often they occur in the text: a label is
\* in the result exactly once if its pattern matches at least once, and not
\* at all otherwise.
C19_VocabularyOrder ==
    out.keywords.called =>
        LET ks == out.keywords.value
            matched == MatchedPatterns(text)
        IN  /\ Len(ks) = Cardinality(matched)
            /\ NoDuplicates(ks)
            /\ \A j \in 1..Len(ks) :
                   ks[j] = FIXED_KEYWORDS[CHOOSE i \in matched :
                               Cardinality({m \in matched : m <= i}) = j]

\* extract_keywords has returned two labels of which the later one comes
\* first in the text, and one of its labels is in the text twice
C19_Witness ==
    /\ out.keywords.called
    /\ LET ks == out.keywords.value
       IN  /\ \E a, b \in 1..Len(ks) :
                  /\ a < b
                  /\ Occurrences(ks[a], text) # {}
                  /\ \E q \in Occurrences(ks[b], text) :
                         \A p \in Occurrences(ks[a], text) : q < p
           /\ \E c \in 1..Len(ks) : Cardinality(Occurrences(ks[c], text)) >= 2

(***************************************************************************)
(* Claims about parse_report.                                              *)
(***************************************************************************)
\* the reports the calls of parser.parse_report returned
AssembledReports ==
    {records[i].result.report : i \in {j \in 1..Len(records) :
                                          records[j].result.status = "assembled"}}

\* C1: in every record parser.parse_report returns, referenced_reports and
\* referenced_by have no id in common, also when an id of the citation
\* section is linked more than once in the telegram container.
C1_Disjoint ==
    \A r \in AssembledReports :
        Range(r.referenced_reports) \cap Range(r.referenced_by) = {}

\* C2: when the title heading, the first strong element or the second strong
\* element is absent, parser.parse_report ends with MissingReportElement and
\* with no other error, and returns no record.
C2_MissingReportElement ==
    (~html.title.present \/ Len(html.strong) < 2) =>
        \A i \in 1..Len(records) :
            /\ records[i].result.status = "failed"
            /\ records[i].result.error = "MissingReportElement"

\* C3: in every record parser.parse_report returns, none of keywords,
\* observation_dates, referenced_reports, referenced_by and objects holds a
\* value twice.
C3_NoDuplicates ==
    \A r \in AssembledReports :
        /\ NoDuplicates(r.keywords)
        /\ NoDuplicates(r.observation_dates)
        /\ NoDuplicates(r.referenced_reports)
        /\ NoDuplicates(r.referenced_by)
        /\ NoDuplicates(r.objects)

\* a record with values in all five fields, from a document that links a
\* report twice, names a date in two ways and cites a report twice, read with
\* two aliases of one object
C3_Witness ==
    /\ ~LinkWithoutNumber(html.telegram.links)
    /\ ~NoDuplicates(LinkNumbers(html.telegram.links))
    /\ ~NoDuplicates(Ints(DigitRuns(html.references.text)))
    /\ \E i \in 1..Len(records) :
          LET r == records[i].result.report
          IN  /\ records[i].result.status = "assembled"
              /\ Len(records[i].aliases_read) = 2
              /\ records[i].aliases_read[1].object_ID
                     = records[i].aliases_read[2].object_ID
              /\ records[i].aliases_read[1].alias
                     # records[i].aliases_read[2].alias
              /\ Len(extract_dates(r.title \o <<" ">> \o r.body)) = 2
              /\ r.keywords # <<>>
              /\ Len(r.observation_dates) = 1
              /\ r.referenced_reports # <<>>
              /\ r.referenced_by # <<>>
              /\ Len(r.objects) = 1

\* C6: every element of keywords is a member of the fixed vocabulary, in the
\* records of parser.parse_report and in the record of importer.parse_report.
C6_VocabularyClosure ==
    /\ \A r \in AssembledReports : Range(r.keywords) \subseteq Range(FIXED_KEYWORDS)
    /\ (imported.called /\ imported.value.status = "assembled") =>
          Range(imported.value.report.keywords) \subseteq Range(FIXED_KEYWORDS)

\* both parse_report functions have returned a record with keywords
C6_Witness ==
    /\ \E r \in AssembledReports : r.keywords # <<>>
    /\ imported.called
    /\ imported.value.status = "assembled"
    /\ imported.value.report.keywords # <<>>

\* the texts of the paragraphs that are part of the body, without the white
\* space around them
RECURSIVE BodyContents(_)
BodyContents(ps) ==
    IF ps = <<>> THEN <<>>
    ELSE (IF IsBodyParagraph(Head(ps)) THEN <<Strip(Head(ps).text)>> ELSE <<>>)
         \o BodyContents(Tail(ps))

\* the number of line breaks in s
RECURSIVE LineBreaks(_)
LineBreaks(s) ==
    IF s = <<>> THEN 0
    ELSE (IF Head(s) = "\n" THEN 1 ELSE 0) + LineBreaks(Tail(s))

\* body is the texts cs in order, with white space that holds exactly one
\* line break between each text and the next
RECURSIVE OneLineBreakBetween(_, _)
OneLineBreakBetween(body, cs) ==
    IF cs = <<>> THEN body = <<>>
    ELSE /\ Len(body) >= Len(Head(cs))
         /\ SubSeq(body, 1, Len(Head(cs))) = Head(cs)
         /\ LET rest == SubSeq(body, Len(Head(cs)) + 1, Len(body))
                gap == SubSeq(rest, 1, Len(rest) - Len(LStrip(rest)))
            IN  IF Tail(cs) = <<>> THEN rest = <<>>
                ELSE /\ LineBreaks(gap) = 1
                     /\ OneLineBreakBetween(LStrip(rest), Tail(cs))

\* C10: in the body of every assembled record, the texts of two consecutive
\* included paragraphs are separated by exactly one newline, whether or not
\* a paragraph's text holds a line break, and the body has no white space at
\* its start or end.
C10_SingleNewlines ==
    \A r \in AssembledReports :
        /\ r.body = Strip(r.body)
        /\ OneLineBreakBetween(r.body, BodyContents(html.paragraphs))

(***************************************************************************)
(* Claims about the anchors of the telegram container.                     *)
(***************************************************************************)
\* the document has the elements parse_report reads before it turns to the
\* anchors: title, authors, a submission date in its format, the container
AnchorsReached(h) ==
    /\ h.title.present
    /\ Len(h.strong) >= 2
    /\ strptime(Strip(h.strong[2]), SubmissionFormat).ok
    /\ h.telegram.present

\* reports without the first occurrence of each id of by that is in it
RECURSIVE WithoutPresent(_, _)
WithoutPresent(reports, by) ==
    IF by = <<>> THEN reports
    ELSE WithoutPresent(IF Head(by) \in Range(reports)
                        THEN RemoveFirst(reports, Head(by)) ELSE reports,
                        Tail(by))

\* C14: when an id of referenced_by is not among the ids collected from the
\* anchors of the telegram container, its removal is a no-op:
\* parser.parse_report still returns a record, and referenced_reports is the
\* collected ids without the ids of referenced_by that are there.
C14_RemoveAbsentIsNoOp ==
    \A i \in 1..Len(records) :
        (/\ AnchorsReached(html)
         /\ ~LinkWithoutNumber(html.telegram.links)
         /\ \E n \in Range(ReferencedBy(html)) :
                n \notin Range(LinkNumbers(html.telegram.links))) =>
            /\ records[i].result.status = "assembled"
            /\ records[i].result.report.referenced_reports =
                   DictFromKeys(WithoutPresent(LinkNumbers(html.telegram.links),
                                               ReferencedBy(html)))

\* the anchor leads to the report URL followed by digits and nothing else,
\* and is not a navigation anchor
NumericReportAnchor(link) ==
    /\ link.has_url
    /\ link.rest # <<>>
    /\ Range(link.rest) \subseteq Digits
    /\ link.text \notin {LabelPrevious, LabelNext}

\* C15: an anchor is kept only if its target is the report URL followed by a
\* non-empty numeric suffix and its label is neither 'Previous' nor 'Next';
\* every other anchor is skipped without failing the parse, and the id of a
\* kept anchor is the integer value of the suffix.
C15_AnchorsFiltered ==
    \A i \in 1..Len(records) :
        (AnchorsReached(html) /\ ReferencedBy(html) = <<>>) =>
            /\ records[i].result.status = "assembled"
            /\ LET kept == SelectSeq(html.telegram.links, NumericReportAnchor)
               IN  records[i].result.report.referenced_reports =
                       DictFromKeys([k \in 1..Len(kept) |-> ToInt(kept[k].rest)])

(***************************************************************************)
(* Claims about the alias table.                                           *)
(***************************************************************************)
\* name occurs in h with a character that is neither a letter nor a digit on
\* each side
TokenOccurs(name, h) ==
    \E p \in 2..(Len(h) - Len(name)) :
        /\ SubSeq(h, p, p + Len(name) - 1) = name
        /\ h[p - 1] \notin (LowerLetters \cup Digits)
        /\ h[p + Len(name)] \notin (LowerLetters \cup Digits)

\* the ids the entries of the table add, in the order of the table
RECURSIVE TokenIds(_, _)
TokenIds(table, h) ==
    IF table = <<>> THEN <<>>
    ELSE (IF \/ TokenOccurs(Lower(Head(table).alias), h)
             \/ TokenOccurs(Lower(Head(table).object_ID), h)
          THEN <<Lower(Head(table).object_ID)>> ELSE <<>>)
         \o TokenIds(Tail(table), h)

\* names of letters, digits and spaces only
PlainTable(table) ==
    \A i \in 1..Len(table) :
        Range(Lower(table[i].alias) \o Lower(table[i].object_ID))
            \subseteq (LowerLetters \cup Digits \cup {" "})

\* C18: extract_known_aliases goes through the alias table in its order and
\* records the lower-cased object id of an entry exactly when the alias
\* occurs in the padded lower-cased text between two non-alphanumeric
\* characters or, failing that, when the object id so occurs; an entry adds
\* at most one id, an empty table gives an empty result, and the output keeps
\* first occurrences in order.
C18_AliasTokens ==
    (out.objects.called /\ PlainTable(aliases)) =>
        /\ out.objects.value.raised = ""
        /\ out.objects.value.value = DictFromKeys(TokenIds(aliases, Pad(Lower(text))))

\* the document is segmented: parse_report has read title, authors,
\* submission date, body and the ids of the anchors without an error
Segmented(h) ==
    /\ AnchorsReached(h)
    /\ ~LinkWithoutNumber(h.telegram.links)
    /\ RemoveLoop(LinkNumbers(h.telegram.links), ReferencedBy(h)).ok

\* C20: every call of parser.parse_report ends assembled or failed, and it
\* fails in the segmenting step only: once the document is segmented, the
\* extraction of dates, keywords and aliases does not fail and the record is
\* assembled, whatever the alias table holds.
C20_FailsWhileSegmentingOnly ==
    \A i \in 1..Len(records) :
        /\ records[i].result.status \in {"assembled", "failed"}
        /\ Segmented(html) => records[i].result.status = "assembled"

(***************************************************************************)
(* Claims about the report number.                                         *)
(***************************************************************************)
\* C11: in every record parser.parse_report(atel_num, html) returns,
\* referenced_reports does not hold atel_num itself, also when the telegram
\* container has an anchor to the report URL of atel_num.
C11_NoSelfReference ==
    \A r \in AssembledReports : r.atel_num \notin Range(r.referenced_reports)

\* C12: every record assembled by either parse_report has an id above zero:
\* a call with atel_num <= 0 yields no assembled record.
C12_PositiveId ==
    /\ \A r \in AssembledReports : r.atel_num > 0
    /\ (imported.called /\ imported.value.status = "assembled") =>
          imported.value.report.atel_num > 0

(***************************************************************************)
(* Claims about import_report.                                             *)
(***************************************************************************)
\* C13: of two concurrent calls of import_report with the same atel_num at
\* most one adds the report, and a call made when the report is in the
\* database ends with ReportAlreadyExistsError and adds nothing.
C13_OneImportOnly ==
    /\ \A p, q \in 1..MaxImporters :
          (p # q /\ imports[p].atel_num = imports[q].atel_num) =>
              ~(imports[p].added /\ imports[q].added)
    /\ \A p \in 1..MaxImporters :
          (imports[p].pc = "returned" /\ imports[p].existed) =>
              (imports[p].error = "ReportAlreadyExistsError" /\ ~imports[p].added)

C8_FailuresClassified ==
    \A i \in 1..Len(dl_log) :
        LET call == dl_log[i]
        IN  /\ (call.stage = "get"
                  /\ call.raised \in {"ConnectionError", "HTTPError"}) =>
                   (call.error = "NetworkError" /\ ~call.html)
            /\ (call.stage = "render" /\ call.raised = "TimeoutError") =>
                   (call.error = "DownloadFailError" /\ ~call.html)

\* a call has ended with NetworkError after a failed GET and another with
\* DownloadFailError after a render timeout
C8_Witness ==
    /\ \E i \in 1..Len(dl_log) :
          dl_log[i].stage = "get" /\ dl_log[i].error = "NetworkError"
    /\ \E i \in 1..Len(dl_log) :
          /\ dl_log[i].stage = "render"
          /\ dl_log[i].raised = "TimeoutError"
          /\ dl_log[i].error = "DownloadFailError"

\* C21: every HTTP session download_report opens is closed before the call
\* ends, on each exit path: the return of the HTML, NetworkError after a
\* failed GET, DownloadFailError after a render timeout.  An open session
\* belongs to a call under way, and once a call has ended, however it ended,
\* its session is closed.
C21_SessionClosed ==
    /\ dl.session = "open" => dl.pc \in {"get", "render", "except", "finally"}
    /\ (dl.pc = "idle" /\ dl_log # <<>>) => dl.session = "closed"

\* a call has just ended with an exception of the except clauses, after a
\* call that returned the HTML, and the session is closed
C21_Witness ==
    /\ dl.pc = "idle"
    /\ dl.session = "closed"
    /\ Len(dl_log) = 2
    /\ dl_log[1].html
    /\ dl_log[2].error \in {"NetworkError", "DownloadFailError"}

(***************************************************************************)
(* Claims about the date extractor.                                        *)
(***************************************************************************)
\* C16: every raw date string extract_dates returns occurs in the lower-cased
\* text at a position where the character before it and the character after
\* it are each a non-digit or a text end, and the string is a date of one of
\* the grammars from its first to its last character, without the boundary
\* characters.
C16_DatesBounded ==
    out.dates.called =>
        LET low == Lower(text)
        IN  \A d \in Range(out.dates.value) :
                /\ \E k \in 1..Len(DATE_REGEXES) :
                       Len(d) + 1 \in Range(Ends(DATE_REGEXES[k], d, 1))
                /\ \E p \in 1..(Len(low) - Len(d) + 1) :
                       /\ SubSeq(low, p, p + Len(d) - 1) = d
                       /\ p = 1 \/ low[p - 1] \notin Digits
                       /\ p + Len(d) - 1 = Len(low) \/ low[p + Len(d)] \notin Digits

\* extract_dates has returned a date, and has left out a string of a date
\* grammar that is inside a longer run of digits
C16_Witness ==
    /\ out.dates.called
    /\ out.dates.value # <<>>
    /\ LET low == Lower(text)
       IN  \E k \in 1..Len(DATE_REGEXES) : \E p \in 1..Len(low) :
               LET e == MatchEnd(DATE_REGEXES[k], low, p)
               IN  /\ e # 0
                   /\ e <= Len(low)
                   /\ low[e] \in Digits
                   /\ SubSeq(low, p, e - 1) \notin Range(out.dates.value)

\* what a raw string adds to the result of parse_dates: the datetime of the
\* first format of DATE_FORMATS that parses it, nothing when none does
Contribution(date) ==
    LET parsing == {k \in 1..Len(DATE_FORMATS) : strptime(date, DATE_FORMATS[k]).ok}
    IN  IF parsing = {} THEN <<>>
        ELSE <<strptime(date, DATE_FORMATS[CHOOSE k \in parsing :
                                               \A j \in parsing : k <= j]).value>>

RECURSIVE Contributions(_)
Contributions(dates) ==
    IF dates = <<>> THEN <<>>
    ELSE Contribution(Head(dates)) \o Contributions(Tail(dates))

\* C17: parse_dates never fails: each raw string contributes the datetime of
\* the first format in DATE_FORMATS order that parses it and nothing more, a
\* string no format parses contributes nothing, and the strings after it are
\* still processed in order (the datetimes are returned once each).
C17_FirstFormatOnly ==
    out.parsed.called =>
        out.parsed.value.value = DictFromKeys(Contributions(out.parsed.value.dates))

\* parse_dates was given a string no format parses before a string that two
\* formats parse to different datetimes, and has returned a datetime
C17_Witness ==
    /\ out.parsed.called
    /\ out.parsed.value.value # <<>>
    /\ LET dates == out.parsed.value.dates
       IN  \E i, j \in 1..Len(dates) :
               /\ i < j
               /\ Contribution(dates[i]) = <<>>
               /\ \E k, l \in 1..Len(DATE_FORMATS) :
                      /\ strptime(dates[j], DATE_FORMATS[k]).ok
                      /\ strptime(dates[j], DATE_FORMATS[l]).ok
                      /\ strptime(dates[j], DATE_FORMATS[k]).value
                             # strptime(dates[j], DATE_FORMATS[l]).value

\* C9: extract_dates finds all dates in the text: every occurrence of a
\* string matching one of the date grammars, with a non-digit character or a
\* text end immediately before and after it, is in the returned list, however
\* few characters separate it from the occurrence before it.
C9_AllDatesFound ==
    out.dates.called =>
        LET h == Pad(Lower(text))
        IN  \A k \in 1..Len(DATE_REGEXES) : \A p \in 1..Len(h) :
                LET e == MatchEnd(BoundedDateRegex(DATE_REGEXES[k]), h, p)
                IN  e # 0 => SubSeq(h, p + 1, e - 2) \in Range(out.dates.value)

====
